---------------------------- MODULE Spec2Model ----------------------------
(***************************************************************************)
(* Model of hellorag_llama_index_pack/base.py: HelloragLlamaindexPack's    *)
(* constructor and build_index.  Strings are sequences of one-character    *)
(* strings, so that find, split, splitext, strip, int() and str() are      *)
(* computed as Python computes them.                                       *)
(***************************************************************************)
EXTENDS Integers, Sequences, FiniteSets, TLC

(***************************************************************************)
(* Bounds of the model.                                                    *)
(***************************************************************************)
MaxFiles == 2
MaxMembers == 2
MaxImages == 2
MaxStrLen == 4
MaxSplitLen == 2
MaxPages == 3
MaxKeyLen == 2

(***************************************************************************)
(* Strings.                                                                *)
(***************************************************************************)
NoneVal == <<"None">>

NL == "\n"

Digits == {"0", "1", "2", "3", "4", "5", "6", "7", "8", "9"}

Whitespace == {" ", NL}

SeqsUpTo(S, n) == UNION {[1..k -> S] : k \in 0..n}

NonEmptySeqsUpTo(S, n) == UNION {[1..k -> S] : k \in 1..n}

\* s.find(sub): the least index (from 0) at which sub occurs in s, or -1
Find(s, sub) ==
    LET hits == {i \in 1..(Len(s) - Len(sub) + 1) : SubSeq(s, i, i + Len(sub) - 1) = sub}
    IN  IF hits = {} THEN -1 ELSE (CHOOSE i \in hits : \A j \in hits : i <= j) - 1

\* s.rfind(c) for a single character: the greatest index (from 0), or -1
RFind(s, c) ==
    LET hits == {i \in 1..Len(s) : s[i] = c}
    IN  IF hits = {} THEN -1 ELSE (CHOOSE i \in hits : \A j \in hits : i >= j) - 1

EndsWith(s, suffix) ==
    /\ Len(s) >= Len(suffix)
    /\ SubSeq(s, Len(s) - Len(suffix) + 1, Len(s)) = suffix

\* s.split('/')[0]
FirstSegment(s) ==
    LET i == Find(s, <<"/">>) IN IF i = -1 THEN s ELSE SubSeq(s, 1, i)

\* os.path.splitext(p)[1] (posixpath): the last dot after the last separator
\* starts the extension, unless only dots precede it in the file name
SplitExt(p) ==
    LET sepIndex == RFind(p, "/")
        dotIndex == RFind(p, ".")
    IN  IF /\ dotIndex > sepIndex
           /\ \E k \in (sepIndex + 1)..(dotIndex - 1) : p[k + 1] # "."
        THEN SubSeq(p, dotIndex + 1, Len(p))
        ELSE << >>

\* s.strip()
Strip(s) ==
    LET keep == {i \in 1..Len(s) : s[i] \notin Whitespace}
    IN  IF keep = {} THEN << >>
        ELSE SubSeq(s, CHOOSE i \in keep : \A j \in keep : i <= j,
                       CHOOSE i \in keep : \A j \in keep : i >= j)

RECURSIVE Concat(_)
\* ''.join(parts)
Concat(parts) ==
    IF parts = << >> THEN << >> ELSE Head(parts) \o Concat(Tail(parts))

RECURSIVE CollapseDoubleSpace(_)
\* s.replace("  ", " "): one left-to-right pass over non-overlapping matches
CollapseDoubleSpace(s) ==
    IF Len(s) < 2 THEN s
    ELSE IF s[1] = " " /\ s[2] = " "
         THEN <<" ">> \o CollapseDoubleSpace(SubSeq(s, 3, Len(s)))
         ELSE <<s[1]>> \o CollapseDoubleSpace(Tail(s))

AllDigits(s) == Len(s) > 0 /\ \A i \in 1..Len(s) : s[i] \in Digits

\* re.match(r'^-?\d+(\.\d+)?$', c) on a stripped string
MatchesNumber(c) ==
    LET t == IF Len(c) > 0 /\ c[1] = "-" THEN Tail(c) ELSE c
    IN  \/ AllDigits(t)
        \/ \E k \in 2..(Len(t) - 1) :
              /\ t[k] = "."
              /\ AllDigits(SubSeq(t, 1, k - 1))
              /\ AllDigits(SubSeq(t, k + 1, Len(t)))

DigitValue(d) == CHOOSE n \in 0..9 : <<"0", "1", "2", "3", "4", "5", "6", "7", "8", "9">>[n + 1] = d

RECURSIVE ParseInt(_)
\* int(k) for a string of decimal digits (leading zeros are accepted);
\* -1 stands for the ValueError int() raises on anything else
ParseInt(k) ==
    IF ~AllDigits(k) THEN -1
    ELSE IF Len(k) = 1 THEN DigitValue(k[1])
         ELSE 10 * ParseInt(SubSeq(k, 1, Len(k) - 1)) + DigitValue(k[Len(k)])

RECURSIVE FormatInt(_)
\* str(n) for n >= 0: the canonical decimal form, no leading zeros
FormatInt(n) ==
    LET d == <<"0", "1", "2", "3", "4", "5", "6", "7", "8", "9">>[(n % 10) + 1]
    IN  IF n < 10 THEN <<d>> ELSE FormatInt(n \div 10) \o <<d>>

RECURSIVE SortedSeq(_)
\* sorted(list of ints), duplicates kept: the argument is a set of
\* <<value, key>> pairs, one per dict key
SortedSeq(pairs) ==
    IF pairs = {} THEN << >>
    ELSE LET m == CHOOSE p \in pairs : \A q \in pairs : p[1] <= q[1]
         IN  <<m[1]>> \o SortedSeq(pairs \ {m})

(***************************************************************************)
(* Nodes.  chunk_type, page_label and file_name are the metadata the code  *)
(* sets; image_source tells which of ImageNode's image / image_url is set. *)
(* origin (the file name of the archive being walked when the node was     *)
(* made) and entry (the position of the image.json entry) are history      *)
(* fields the code does not store.                                         *)
(***************************************************************************)
Node(chunk_type, page_label, file_name, text, image_source, origin, entry) ==
    [chunk_type |-> chunk_type, page_label |-> page_label, file_name |-> file_name,
     text |-> text, image_source |-> image_source, origin |-> origin, entry |-> entry]

\* a Python value is truthy: neither None nor the empty string
Truthy(v) == v # NoneVal /\ v # << >>

\* the binary members of an archive that image.json entries refer to
ImagePayloads == {<<"i">>}

\* the content_file_name assigned in build_index
ContentFileName(filename) == SubSeq(filename, 1, Len(filename) - 4)

(***************************************************************************)
(* image.json: one entry.  keys is the set of keys the JSON object has.    *)
(* Returns the exception raised, or the node if one is made ("skip" when   *)
(* the entry is dropped).                                                  *)
(***************************************************************************)
ImageDescription(image_info) ==
    IF "scriptionle" \in image_info.keys /\ Truthy(image_info.description)
    THEN image_info.description ELSE << >>

ImageTitle(image_info) ==
    IF "title" \in image_info.keys /\ Truthy(image_info.title)
    THEN image_info.title ELSE << >>

ImageEntry(image_info, i, image_to_url_function, content_file_name, origin) ==
    LET title == ImageTitle(image_info)
        description == ImageDescription(image_info)
    IN  IF "scriptionle" \in image_info.keys /\ "description" \notin image_info.keys
        THEN [outcome |-> "KeyError"]
        ELSE IF Len(Strip(title)) + Len(Strip(description)) = 0
        THEN [outcome |-> "skip"]
        ELSE IF "path" \notin image_info.keys
                \/ SubSeq(image_info.path, 3, Len(image_info.path)) \notin ImagePayloads
        THEN [outcome |-> "KeyError"]
        ELSE IF "page" \notin image_info.keys
        THEN [outcome |-> "KeyError"]
        ELSE [outcome |-> "node",
              node |-> Node("image", image_info.page, content_file_name,
                            title \o <<NL>> \o description,
                            IF image_to_url_function THEN "image_url" ELSE "image_base64",
                            origin, i)]

RECURSIVE ImageLoop(_, _, _, _, _, _)
\* for image_info in image_infos: ... all_nodes.append(node)
ImageLoop(image_infos, i, nodes, image_to_url_function, content_file_name, origin) ==
    IF i > Len(image_infos) THEN [nodes |-> nodes, exc |-> "none"]
    ELSE LET r == ImageEntry(image_infos[i], i, image_to_url_function,
                             content_file_name, origin)
         IN  IF r.outcome = "KeyError" THEN [nodes |-> nodes, exc |-> "KeyError"]
             ELSE ImageLoop(image_infos, i + 1,
                            IF r.outcome = "node" THEN Append(nodes, r.node) ELSE nodes,
                            image_to_url_function, content_file_name, origin)

(***************************************************************************)
(* .html members.  html.h1 and html.p are the lists xpath('//h1/text()')   *)
(* and xpath('//p/text()') return, html.tables the list xpath('//table')   *)
(* returns; a table is the row-major sequence of its td cells and a cell   *)
(* the sequence of its text strings in document order (nested markup       *)
(* splits a cell's text into several strings).                             *)
(***************************************************************************)
\* td.stripped_strings: each string stripped, empty ones dropped
RECURSIVE StrippedStrings(_)
StrippedStrings(cell) ==
    IF cell = << >> THEN << >>
    ELSE LET c == Strip(Head(cell))
         IN  (IF c = << >> THEN << >> ELSE <<c>>) \o StrippedStrings(Tail(cell))

\* the filter of the generator: strings that are not a number are kept
RECURSIVE NonNumeric(_)
NonNumeric(strings) ==
    IF strings = << >> THEN << >>
    ELSE (IF MatchesNumber(Head(strings)) THEN << >> ELSE <<Head(strings)>>)
         \o NonNumeric(Tail(strings))

\* ''.join(c for c in td.stripped_strings if not re.match(...))
CellText(cell) == Concat(NonNumeric(StrippedStrings(cell)))

\* ''.join(texts).replace("  ", " ")
HtmlCoreContent(table) ==
    CollapseDoubleSpace(Concat([k \in 1..Len(table) |-> CellText(table[k])]))

TableNode(html, page_label, content_file_name, origin) ==
    IF html.h1 = << >> \/ html.p = << >> \/ html.tables = << >>
    THEN [exc |-> "IndexError"]
    ELSE [exc |-> "none",
          node |-> Node("table", page_label, content_file_name,
                        html.h1[1] \o <<NL>> \o html.p[1] \o <<NL>>
                            \o HtmlCoreContent(html.tables[1]),
                        "none", origin, 0)]

(***************************************************************************)
(* One iteration of "for member in zip_content".                           *)
(***************************************************************************)
MacOsx == <<"_", "_", "M", "A", "C", "O", "S", "X">>

ImageJsonName == <<"i", "m", "a", "g", "e", ".", "j", "s", "o", "n">>

ExtTxt == <<".", "t", "x", "t">>

ExtHtml == <<".", "h", "t", "m", "l">>

ExtZip == <<".", "z", "i", "p">>

\* ZipInfo.is_dir()
IsDir(member_name) == EndsWith(member_name, <<"/">>)

\* the routing with the first .txt member of a page kept, not the last
RouteByExtensionKeepFirst(m, nodes, text_map, content_file_name, origin) ==
    LET page_label == FirstSegment(m.member_name)
        ext == SplitExt(m.member_name)
    IN  IF ext = ExtTxt
        THEN [nodes |-> nodes, exc |-> "none",
              text_map |-> [k \in DOMAIN text_map \cup {page_label} |->
                               IF k \in DOMAIN text_map THEN text_map[k] ELSE m.text]]
        ELSE IF ext = ExtHtml
        THEN LET t == TableNode(m.html, page_label, content_file_name, origin)
             IN  IF t.exc # "none"
                 THEN [nodes |-> nodes, exc |-> t.exc, text_map |-> text_map]
                 ELSE [nodes |-> Append(nodes, t.node), exc |-> "none",
                       text_map |-> text_map]
        ELSE [nodes |-> nodes, exc |-> "none", text_map |-> text_map]

\* lines 231-256: the routing by extension
RouteByExtension(m, nodes, text_map, content_file_name, origin) ==
    LET page_label == FirstSegment(m.member_name)
        ext == SplitExt(m.member_name)
    IN  IF ext = ExtTxt
        THEN [nodes |-> nodes, exc |-> "none",
              text_map |-> [k \in DOMAIN text_map \cup {page_label} |->
                               IF k = page_label THEN m.text ELSE text_map[k]]]
        ELSE IF ext = ExtHtml
        THEN LET t == TableNode(m.html, page_label, content_file_name, origin)
             IN  IF t.exc # "none"
                 THEN [nodes |-> nodes, exc |-> t.exc, text_map |-> text_map]
                 ELSE [nodes |-> Append(nodes, t.node), exc |-> "none",
                       text_map |-> text_map]
        ELSE [nodes |-> nodes, exc |-> "none", text_map |-> text_map]

\* lines 197-256
MemberStep(m, nodes, text_map, no_use_image, image_to_url, content_file_name, origin) ==
    LET same == [nodes |-> nodes, exc |-> "none", text_map |-> text_map]
    IN  IF IsDir(m.member_name) THEN same
        ELSE IF Find(m.member_name, MacOsx) # -1 THEN same
        ELSE IF Find(m.member_name, <<"/">>) = -1
        THEN IF m.member_name # ImageJsonName THEN same
             ELSE IF no_use_image THEN same
             ELSE LET r == ImageLoop(m.image_infos, 1, nodes, image_to_url,
                                     content_file_name, origin)
                  IN  IF r.exc # "none"
                      THEN [nodes |-> r.nodes, exc |-> r.exc, text_map |-> text_map]
                      ELSE RouteByExtension(m, r.nodes, text_map, content_file_name, origin)
        ELSE RouteByExtension(m, nodes, text_map, content_file_name, origin)

(***************************************************************************)
(* Lines 259-277: the synthetic PDF.  A page is the text drawn on it, the  *)
(* empty string for a page that only received showPage().                  *)
(***************************************************************************)
BlankPage == << >>

RECURSIVE RenderPages(_, _, _)
RenderPages(sorted_pages, pages, text_map) ==
    IF sorted_pages = << >> THEN [exc |-> "none", pages |-> pages]
    ELSE LET page_number == Head(sorted_pages)
             current_page == Len(pages) + 1
             filler == IF current_page < page_number
                       THEN [k \in 1..(page_number - current_page) |-> BlankPage]
                       ELSE << >>
         IN  IF FormatInt(page_number) \notin DOMAIN text_map
             THEN [exc |-> "KeyError", pages |-> pages \o filler]
             ELSE RenderPages(Tail(sorted_pages),
                              (pages \o filler) \o <<text_map[FormatInt(page_number)]>>,
                              text_map)

SynthesizePdf(text_map) ==
    IF \E k \in DOMAIN text_map : ParseInt(k) = -1
    THEN [exc |-> "ValueError", pages |-> << >>]
    ELSE RenderPages(SortedSeq({<<ParseInt(k), k>> : k \in DOMAIN text_map}),
                     << >>, text_map)

\* the callback left out: the reader tags the document with the temp file's name
FileMetadataTempName(temp_file, content_file_name) ==
    FormatInt(temp_file) \o <<".", "p", "d", "f">>

\* the callback handed to SimpleDirectoryReader as file_metadata
FileMetadataCallBack(temp_file, content_file_name) == content_file_name

\* lines 283-286: the reader yields one document per physical page, labelled
\* with its physical index; the splitter one chunk per page that has text
RECURSIVE TextNodes(_, _, _, _, _)
TextNodes(pages, p, temp_file, content_file_name, origin) ==
    IF p > Len(pages) THEN << >>
    ELSE (IF pages[p] = BlankPage THEN << >>
          ELSE <<Node("none", FormatInt(p),
                      FileMetadataCallBack(temp_file, content_file_name),
                      pages[p], "none", origin, 0)>>)
         \o TextNodes(pages, p + 1, temp_file, content_file_name, origin)

(***************************************************************************)
(* The inputs: constructor arguments, the files os.walk yields, and the    *)
(* members of an archive.                                                  *)
(***************************************************************************)
ArgSpace ==
    [need_refresh : BOOLEAN, base_path : {"None", "root"},
     index_path : {"None", "", "dir"},
     storage_context : {"None", "no_vector_stores", "ctx"},
     no_use_image_in_rag : BOOLEAN, image_to_url_function : BOOLEAN]

\* "if index_path:" and "elif storage_context:" test truthiness, not "is None"
PathTruthy(index_path) == index_path # "None" /\ index_path # ""

\* os.walk lists the files of a directory, whose names differ: the k-th file
\* listed is a valid archive, a corrupt archive or a file that is no archive
FileLetters == <<"a", "b", "c", "d">>

FileKinds == {"zip", "corrupt", "other"}

FileName(k, kind) ==
    <<FileLetters[k]>> \o (IF kind = "other" THEN ExtTxt ELSE ExtZip)

NoHtml == [h1 |-> << >>, p |-> << >>, tables |-> << >>]

Member(member_name, text, html, image_infos) ==
    [member_name |-> member_name, text |-> text, html |-> html,
     image_infos |-> image_infos]

ImageInfo(keys, title, description, page, path) ==
    [keys |-> keys, title |-> title, description |-> description, page |-> page,
     path |-> path]

AllKeys == {"title", "description", "page", "path"}

GoodHtml == [h1 |-> <<<<"T">>>>, p |-> <<<<"D">>>>,
             tables |-> <<<< <<<<"R", " ">>, <<"4">>>>, <<<<"4">>>>, <<<<"x">>>> >>>>]

TextMember(page, name, text) == Member(page \o <<"/">> \o name \o ExtTxt, text, NoHtml, << >>)

HtmlMember(page, html) == Member(page \o <<"/", "t">> \o ExtHtml, << >>, html, << >>)

ImageJsonMember(image_infos) == Member(ImageJsonName, << >>, NoHtml, image_infos)

\* the members the whole-build specification draws from: one of each kind
MemberPool ==
    {Member(<<"a">> \o ExtTxt, <<"t">>, NoHtml, << >>),
     ImageJsonMember(<<ImageInfo(AllKeys, <<"T">>, << >>, <<"1">>, <<".", "/", "i">>)>>),
     TextMember(<<"2">>, <<"a">>, <<"b">>),
     HtmlMember(<<"1">>, GoodHtml),
     HtmlMember(<<"2">>, [GoodHtml EXCEPT !.h1 = << >>])}

\* the members the archive-walk specification draws from: every kind of name
RoutePool ==
    MemberPool \cup
    {Member(<<"1", "/">>, << >>, NoHtml, << >>),
     Member(MacOsx \o <<"/", "1", "/", "a">> \o ExtTxt, <<"m">>, NoHtml, << >>),
     TextMember(<<"1">>, <<"a">>, <<"a">>),
     TextMember(<<"1">>, <<"b">>, <<"b">>),
     Member(<<"1", "/", ".", "t", "x", "t">>, <<"h">>, NoHtml, << >>),
     Member(<<"1", "/", "t", ".", "h", "t", "m">>, << >>, GoodHtml, << >>),
     Member(<<"1", "/", "i", ".", "p", "n", "g">>, << >>, NoHtml, << >>)}

\* what the external collaborators of lines 264-286 may do: reportlab failing
\* before the file is written, the reader or the splitter raising
Faults == {"none", "render", "reader", "splitter"}

(***************************************************************************)
(* State.                                                                  *)
(***************************************************************************)
VARIABLES pc, exc, args, all_nodes, all_text_nodes_map, filename, content_file_name,
          member, n_files, n_members, archives_read, temp_files, n_temp, pdf,
          index_builds

vars == <<pc, exc, args, all_nodes, all_text_nodes_map, filename, content_file_name,
          member, n_files, n_members, archives_read, temp_files, n_temp, pdf,
          index_builds>>

EmptyMap == [k \in {} |-> << >>]

NoMember == Member(<< >>, << >>, NoHtml, << >>)

Fresh(a) ==
    /\ args = a
    /\ exc = "none"
    /\ all_nodes = << >>
    /\ all_text_nodes_map = EmptyMap
    /\ filename = << >>
    /\ content_file_name = << >>
    /\ member = NoMember
    /\ n_files = 0
    /\ n_members = 0
    /\ archives_read = 0
    /\ temp_files = {}
    /\ n_temp = 0
    /\ pdf = NoneVal
    /\ index_builds = << >>

\* the whole-build specification leaves the upload callback unset: it only
\* selects which field of an ImageNode holds the payload, and the archive-walk
\* specifications draw it
MainArgs == {a \in ArgSpace : ~a.image_to_url_function}

Init == pc = "init" /\ \E a \in MainArgs : Fresh(a)

Raise(e) == pc' = "raised" /\ exc' = e

(***************************************************************************)
(* __init__, lines 120-130: the argument checks, then build_index when     *)
(* need_refresh is set.                                                    *)
(***************************************************************************)
\* the checks without the one that a terminal mode is supplied
InitCheckBasePathOnly(a) ==
    IF a.need_refresh /\ a.base_path = "None" THEN "ValueError"
    ELSE IF /\ a.index_path = "None"
            /\ a.storage_context # "None"
            /\ a.storage_context = "no_vector_stores"
    THEN "ValueError"
    ELSE "none"

InitCheck(a) ==
    IF a.need_refresh /\ a.base_path = "None" THEN "ValueError"
    ELSE IF a.index_path = "None" /\ a.storage_context = "None" THEN "ValueError"
    ELSE IF /\ a.index_path = "None"
            /\ a.storage_context # "None"
            /\ a.storage_context = "no_vector_stores"
    THEN "ValueError"
    ELSE "none"

Construct ==
    /\ pc = "init"
    /\ IF InitCheck(args) # "none" THEN Raise(InitCheck(args))
       ELSE /\ pc' = IF args.need_refresh THEN "walk" ELSE "load"
            /\ exc' = exc
    /\ UNCHANGED <<args, all_nodes, all_text_nodes_map, filename, content_file_name,
                   member, n_files, n_members, archives_read, temp_files, n_temp,
                   pdf, index_builds>>

(***************************************************************************)
(* build_index, lines 186-195: os.walk yields the next file.               *)
(***************************************************************************)
SkipFile ==
    /\ pc = "walk"
    /\ n_files < MaxFiles
    /\ \E kind \in FileKinds :
          /\ ~EndsWith(FileName(n_files + 1, kind), ExtZip)
          /\ filename' = FileName(n_files + 1, kind)
    /\ n_files' = n_files + 1
    /\ UNCHANGED <<pc, exc, args, all_nodes, all_text_nodes_map, content_file_name,
                   member, n_members, archives_read, temp_files, n_temp, pdf,
                   index_builds>>

OpenArchive ==
    /\ pc = "walk"
    /\ n_files < MaxFiles
    /\ \E kind \in FileKinds :
          /\ EndsWith(FileName(n_files + 1, kind), ExtZip)
          /\ filename' = FileName(n_files + 1, kind)
          /\ content_file_name' = ContentFileName(FileName(n_files + 1, kind))
          /\ IF kind = "corrupt" THEN Raise("BadZipFile")
             ELSE pc' = "members" /\ exc' = exc
    /\ all_text_nodes_map' = EmptyMap
    /\ n_files' = n_files + 1
    /\ n_members' = 0
    /\ archives_read' = archives_read + 1
    /\ UNCHANGED <<args, all_nodes, member, temp_files, n_temp, pdf, index_builds>>

(***************************************************************************)
(* build_index, lines 196-256: one member of the open archive.             *)
(***************************************************************************)
WalkMemberFrom(pool) ==
    /\ pc = "members"
    /\ n_members < MaxMembers
    /\ \E m \in pool :
          LET r == MemberStep(m, all_nodes, all_text_nodes_map,
                              args.no_use_image_in_rag, args.image_to_url_function,
                              content_file_name, filename)
          IN  /\ member' = m
              /\ all_nodes' = r.nodes
              /\ all_text_nodes_map' = r.text_map
              /\ IF r.exc # "none" THEN Raise(r.exc) ELSE pc' = pc /\ exc' = exc
    /\ n_members' = n_members + 1
    /\ UNCHANGED <<args, filename, content_file_name, n_files, archives_read,
                   temp_files, n_temp, pdf, index_builds>>

WalkMember == WalkMemberFrom(MemberPool)

(***************************************************************************)
(* build_index, lines 258-287: after the last member, the synthetic PDF,   *)
(* the reader, the splitter and delete_file.  reportlab writes the file in *)
(* c.save(), so an exception before line 277 leaves no file behind.  The   *)
(* loop variable member is dead once the loop is left.                     *)
(***************************************************************************)
\* delete_file: os.remove, any exception swallowed
delete_file(files, file_path) == files \ {file_path}

SynthesizeDocument ==
    /\ pc = "members"
    /\ \E fault \in Faults :
          LET temp_file == n_temp + 1
              doc == SynthesizePdf(all_text_nodes_map)
          IN  IF DOMAIN all_text_nodes_map = {}
              THEN /\ fault = "none"
                   /\ pc' = "walk"
                   /\ UNCHANGED <<exc, all_nodes, temp_files, n_temp, pdf>>
              ELSE IF fault = "render"
              THEN /\ Raise("RenderError")
                   /\ n_temp' = temp_file
                   /\ UNCHANGED <<all_nodes, temp_files, pdf>>
              ELSE IF doc.exc # "none"
              THEN /\ fault = "none"
                   /\ Raise(doc.exc)
                   /\ n_temp' = temp_file
                   /\ UNCHANGED <<all_nodes, temp_files, pdf>>
              ELSE /\ n_temp' = temp_file
                   /\ pdf' = doc.pages
                   /\ IF fault \in {"reader", "splitter"}
                      THEN /\ Raise(IF fault = "reader" THEN "ReaderError"
                                    ELSE "SplitterError")
                           /\ temp_files' = temp_files \cup {temp_file}
                           /\ all_nodes' = all_nodes
                      ELSE /\ pc' = "walk"
                           /\ exc' = exc
                           /\ all_nodes' = all_nodes \o
                                 TextNodes(doc.pages, 1, temp_file, content_file_name,
                                           filename)
                           /\ temp_files' =
                                 delete_file(temp_files \cup {temp_file}, temp_file)
    /\ member' = NoMember
    /\ UNCHANGED <<args, all_text_nodes_map, filename, content_file_name,
                   n_files, n_members, archives_read, index_builds>>

(***************************************************************************)
(* build_index, lines 289-297: os.walk is exhausted; the nodes go to       *)
(* VectorStoreIndex.  index_builds lists the node collections handed over. *)
(***************************************************************************)
BuildVectorIndex ==
    /\ pc = "walk"
    /\ index_builds' =
          IF PathTruthy(args.index_path) THEN Append(index_builds, all_nodes)
          ELSE IF args.storage_context # "None" THEN Append(index_builds, all_nodes)
          ELSE index_builds
    /\ pc' = "load"
    /\ UNCHANGED <<exc, args, all_nodes, all_text_nodes_map, filename,
                   content_file_name, member, n_files, n_members, archives_read,
                   temp_files, n_temp, pdf>>

(***************************************************************************)
(* __init__, lines 132-143: load the index.                                *)
(***************************************************************************)
LoadIndex ==
    /\ pc = "load"
    /\ IF PathTruthy(args.index_path) \/ args.storage_context # "None"
       THEN pc' = "done" /\ exc' = exc
       ELSE Raise("ValueError")
    /\ UNCHANGED <<args, all_nodes, all_text_nodes_map, filename, content_file_name,
                   member, n_files, n_members, archives_read, temp_files, n_temp,
                   pdf, index_builds>>

Next ==
    \/ Construct
    \/ SkipFile
    \/ OpenArchive
    \/ WalkMember
    \/ SynthesizeDocument
    \/ BuildVectorIndex
    \/ LoadIndex

Spec == Init /\ [][Next]_vars

(***************************************************************************)
(* Specifications of one part of build_index each, started in the state    *)
(* build_index is in once the first archive is open, with the inputs of    *)
(* that part drawn exhaustively within the bounds.                         *)
(***************************************************************************)
WalkArgs ==
    {a \in ArgSpace : /\ a.need_refresh
                      /\ a.base_path = "root"
                      /\ a.index_path = "dir"
                      /\ a.storage_context = "None"}

Walking(a, text_map, walked) ==
    /\ pc = "members"
    /\ args = a
    /\ exc = "none"
    /\ all_nodes = << >>
    /\ all_text_nodes_map = text_map
    /\ filename = FileName(1, "zip")
    /\ content_file_name = ContentFileName(FileName(1, "zip"))
    /\ member = NoMember
    /\ n_files = 1
    /\ n_members = walked
    /\ archives_read = 1
    /\ temp_files = {}
    /\ n_temp = 0
    /\ pdf = NoneVal
    /\ index_builds = << >>

\* the member loop over every kind of member name
InitWalk == \E a \in WalkArgs : Walking(a, EmptyMap, 0)

WalkRouted == WalkMemberFrom(RoutePool)

SpecWalk == InitWalk /\ [][WalkRouted \/ SynthesizeDocument]_vars

\* the member loop on image.json, over the entries a JSON array can hold
ImageInfos ==
    {ImageInfo(keys, title, description, page, path) :
        keys \in {ks \in SUBSET {"title", "description", "scriptionle", "page", "path"} :
                     "path" \in ks},
        title \in {NoneVal, << >>, <<" ">>, <<"T">>},
        description \in {NoneVal, << >>, <<" ">>, <<"D">>},
        page \in {<<"1">>},
        path \in {<<".", "/", "i">>, <<"i">>}}

\* a key the object lacks has no value: keep one representative
ImageInfosCanonical ==
    {e \in ImageInfos : /\ "title" \notin e.keys => e.title = NoneVal
                        /\ "description" \notin e.keys => e.description = NoneVal}

ImageJsonMembers ==
    {ImageJsonMember(image_infos) : image_infos \in SeqsUpTo(ImageInfosCanonical, MaxImages)}

InitLastMember == \E a \in WalkArgs : Walking(a, EmptyMap, MaxMembers - 1)

WalkImageJson == WalkMemberFrom(ImageJsonMembers)

SpecImage == InitLastMember /\ [][WalkImageJson]_vars

\* the member loop on an .html member, over the text of the table cells
CellAlphabet == {"-", "4", ".", "R", " "}

Cells ==
    {<<s>> : s \in NonEmptySeqsUpTo(CellAlphabet, MaxStrLen)}
    \cup {<<s, t>> : s, t \in NonEmptySeqsUpTo(CellAlphabet, MaxSplitLen)}

Tables ==
    {<<c>> : c \in Cells}
    \cup {<<<<s>>, <<t>>>> : s, t \in NonEmptySeqsUpTo(CellAlphabet, 1)}

HtmlPages ==
    {[GoodHtml EXCEPT !.tables = <<table>>] : table \in Tables}
    \cup {[h1 |-> h1, p |-> p, tables |-> tables] :
             h1 \in {<< >>, GoodHtml.h1}, p \in {<< >>, GoodHtml.p},
             tables \in {<< >>, GoodHtml.tables}}

HtmlMembers == {HtmlMember(<<"1">>, html) : html \in HtmlPages}

WalkHtml == WalkMemberFrom(HtmlMembers)

SpecTable == InitLastMember /\ [][WalkHtml]_vars

\* the synthetic document, over the page-number-to-text maps a walk can leave
PageKeys == NonEmptySeqsUpTo({"0", "1", "2", "x"}, MaxKeyLen)

TextMaps ==
    UNION {[keys -> {<<"a">>, <<"b">>}] :
              keys \in {ks \in SUBSET PageKeys : Cardinality(ks) <= MaxPages}}

InitSynth == \E a \in WalkArgs, text_map \in TextMaps : Walking(a, text_map, MaxMembers)

SpecSynth == InitSynth /\ [][SynthesizeDocument]_vars

(***************************************************************************)
(* The claims.                                                             *)
(***************************************************************************)
\* the build has left build_index, normally or by an exception
BuildEnded == args.need_refresh /\ pc \in {"load", "done", "raised"}

\* the build has returned from build_index
BuildCompleted == args.need_refresh /\ pc \in {"load", "done"}

\* C1: a failure while opening or reading one archive is isolated to that
\* archive: no exception raised by opening a corrupt archive escapes build_index.
C1_CorruptArchiveIsolated == ~(pc = "raised" /\ exc = "BadZipFile")

\* the member just walked is an .html member that lacks a title, a description
\* or a table
MalformedPage(m) ==
    /\ SplitExt(m.member_name) = ExtHtml
    /\ (m.html.h1 = << >> \/ m.html.p = << >> \/ m.html.tables = << >>)

\* C2: an .html member without title, description or table yields no table node
\* for its page but does not abort the archive: the walk goes on after it.
C2_MalformedPageSkipped ==
    (member # NoMember /\ MalformedPage(member)) => (pc = "members" /\ exc = "none")

\* C3: in every terminal state of a build, normal or by an exception, no temp
\* file created during the build still exists.
C3_TempFileDeleted == BuildEnded => temp_files = {}

\* C4: the backend is never invoked while archives are still being walked, and
\* in any completed build it has been invoked exactly once, with all the nodes.
C4_BackendInvokedOnce ==
    /\ pc \in {"walk", "members"} => index_builds = << >>
    /\ BuildCompleted => index_builds = <<all_nodes>>

\* the keys of a map are page numbers: decimal strings of positive integers,
\* no two of them the same integer
PageNumberKeys(text_map) ==
    /\ \A k \in DOMAIN text_map : AllDigits(k) /\ ParseInt(k) >= 1
    /\ \A k, l \in DOMAIN text_map : ParseInt(k) = ParseInt(l) => k = l

MaxPageNumber(text_map) ==
    CHOOSE n \in {ParseInt(k) : k \in DOMAIN text_map} :
        \A k \in DOMAIN text_map : ParseInt(k) <= n

\* the document the claim expects for a map of page numbers
ExpectedPages(text_map) ==
    [p \in 1..MaxPageNumber(text_map) |->
        IF \E k \in DOMAIN text_map : ParseInt(k) = p
        THEN text_map[CHOOSE k \in DOMAIN text_map : ParseInt(k) = p]
        ELSE BlankPage]

\* C5: once the synthesizer has run (reportlab itself not failing), no document
\* exists for an empty map, and for a map of page numbers the document has
\* max(page numbers) pages, page p carrying the text mapped to p, blank otherwise.
C5_PagesMatchPageNumbers ==
    (pc # "members" /\ exc # "RenderError" /\ PageNumberKeys(all_text_nodes_map)) =>
        IF DOMAIN all_text_nodes_map = {} THEN pdf = NoneVal
        ELSE pdf = ExpectedPages(all_text_nodes_map)

\* the value an image.json entry gives a key: empty when absent or null
EntryValue(e, key, value) == IF key \in e.keys /\ value # NoneVal THEN value ELSE << >>

\* an entry follows the image.json schema and its payload is in the archive
WellFormedEntry(e) ==
    /\ AllKeys \subseteq e.keys
    /\ e.path \in {<<".", "/">> \o payload : payload \in ImagePayloads}

HasImageNode(i) ==
    \E k \in 1..Len(all_nodes) :
        all_nodes[k].chunk_type = "image" /\ all_nodes[k].entry = i

\* C6: with image ingestion enabled, once image.json is walked, an entry whose
\* title and description are both empty after trimming has no node, and an
\* entry with either of them non-empty has an image node.
C6_ImageEntryRetained ==
    (member # NoMember /\ member.member_name = ImageJsonName
        /\ ~args.no_use_image_in_rag) =>
        \A i \in 1..Len(member.image_infos) :
            LET e == member.image_infos[i]
                bothEmpty == /\ Strip(EntryValue(e, "title", e.title)) = << >>
                             /\ Strip(EntryValue(e, "description", e.description)) = << >>
            IN  WellFormedEntry(e) => (HasImageNode(i) <=> ~bothEmpty)

\* the text of a whole cell, trimmed
WholeCellText(cell) == Strip(Concat(cell))

HasDigit(s) == \E i \in 1..Len(s) : s[i] \in Digits

\* what the claim says a cell contributes: nothing when its text is purely a
\* number, all of its text otherwise
ClaimedCellText(cell) ==
    IF MatchesNumber(WholeCellText(cell)) THEN << >> ELSE WholeCellText(cell)

\* C7: in the text of the table node made from an .html member, a cell whose
\* text is purely a number contributes nothing and a cell that is not purely
\* numeric but contains digits is retained in full (runs of two spaces aside).
C7_NumericCellsElided ==
    (member # NoMember /\ SplitExt(member.member_name) = ExtHtml /\ pc = "members"
        /\ \A k \in 1..Len(member.html.tables[1]) :
              \/ MatchesNumber(WholeCellText(member.html.tables[1][k]))
              \/ HasDigit(WholeCellText(member.html.tables[1][k]))) =>
        all_nodes[Len(all_nodes)].text =
            member.html.h1[1] \o <<NL>> \o member.html.p[1] \o <<NL>> \o
            CollapseDoubleSpace(Concat([k \in 1..Len(member.html.tables[1]) |->
                                           ClaimedCellText(member.html.tables[1][k])]))

\* processing has begun: build_index was entered
Started == pc \in {"walk", "members", "load", "done"} \/ archives_read > 0

\* the configuration error of __init__: raised before any archive is read and
\* before the backend is invoked
ConfigurationError ==
    /\ pc = "raised"
    /\ exc = "ValueError"
    /\ archives_read = 0
    /\ index_builds = << >>

ModeSupplied(a) == a.index_path # "None" \/ a.storage_context = "ctx"

RoutedStep ==
    /\ n_members' = n_members + 1
    /\ ~IsDir(member'.member_name)
    /\ Find(member'.member_name, MacOsx) = -1
    /\ Find(member'.member_name, <<"/">>) # -1

Overwritten(text_map, page, text) ==
    [k \in DOMAIN text_map \cup {page} |-> IF k = page THEN text ELSE text_map[k]]

OneTableNodeAdded ==
    /\ Len(all_nodes') = Len(all_nodes) + 1
    /\ SubSeq(all_nodes', 1, Len(all_nodes)) = all_nodes
    /\ all_nodes'[Len(all_nodes')].chunk_type = "table"
    /\ all_nodes'[Len(all_nodes')].page_label = FirstSegment(member'.member_name)

\* C9 as stated: a .txt member overwrites the entry of its page number, a .html
\* or .htm member produces exactly one table node tagged with its page number,
\* any other member changes neither the text map nor the node collection.
C9_RoutedByExtension ==
    [][RoutedStep =>
          LET ext == SplitExt(member'.member_name)
              page == FirstSegment(member'.member_name)
          IN  IF ext = ExtTxt
              THEN /\ all_text_nodes_map' = Overwritten(all_text_nodes_map, page, member'.text)
                   /\ all_nodes' = all_nodes
              ELSE IF ext \in {ExtHtml, <<".", "h", "t", "m">>}
              THEN /\ MalformedPage(member') \/ OneTableNodeAdded
                   /\ all_text_nodes_map' = all_text_nodes_map
              ELSE /\ all_text_nodes_map' = all_text_nodes_map
                   /\ all_nodes' = all_nodes]_vars

\* C9, amended: a .txt member overwrites the entry of its page number, a .html
\* member with a title, a description and a table produces exactly one table
\* node tagged with its page number, and a member with any other extension,
\* .htm included, changes neither the text map nor the node collection.
C9_RoutedByExtensionHtmlOnly ==
    [][RoutedStep =>
          LET ext == SplitExt(member'.member_name)
              page == FirstSegment(member'.member_name)
          IN  IF ext = ExtTxt
              THEN /\ all_text_nodes_map' = Overwritten(all_text_nodes_map, page, member'.text)
                   /\ all_nodes' = all_nodes
              ELSE IF ext = ExtHtml
              THEN /\ MalformedPage(member') \/ OneTableNodeAdded
                   /\ all_text_nodes_map' = all_text_nodes_map
              ELSE /\ all_text_nodes_map' = all_text_nodes_map
                   /\ all_nodes' = all_nodes]_vars

\* a second .txt member of page 1 has replaced the text of the first
C9_TextOverwritten ==
    /\ n_members = 2
    /\ pc = "members"
    /\ member = TextMember(<<"1">>, <<"b">>, <<"b">>)
    /\ all_text_nodes_map = [k \in {<<"1">>} |-> <<"b">>]

\* the document id of an archive: its file name minus the extension
DocumentId(archive) == SubSeq(archive, 1, RFind(archive, "."))

\* C10: every node of the collection carries the document id of the archive it
\* was produced from, and every table and text node carries a page number.
C10_NodesTagged ==
    \A k \in 1..Len(all_nodes) :
        /\ all_nodes[k].file_name # NoneVal
        /\ all_nodes[k].file_name = DocumentId(all_nodes[k].origin)
        /\ all_nodes[k].chunk_type # "image" => all_nodes[k].page_label # NoneVal

\* nodes of two archives are in the collection, a text chunk of the second
\* after a table node of the first
C10_TwoArchivesTagged ==
    \E j, k \in 1..Len(all_nodes) :
        /\ all_nodes[j].origin # all_nodes[k].origin
        /\ all_nodes[j].chunk_type = "table"
        /\ all_nodes[k].chunk_type = "none"

=============================================================================
